---- MODULE Spec2Model ----
(***************************************************************************)
(* Kaleidoscope: the MPM solver (src/mpm.py) and the mirror-fan reflection *)
(* tracer (src/reflect.py), modelled as state machines.                    *)
(*                                                                         *)
(* The code computes in floating point; the model computes the same        *)
(* expressions in exact arithmetic of reals.  TLC's integers are 32 bits   *)
(* wide, so the tracer's numbers are carried as integers of any size,      *)
(* little-endian sequences of limbs in base Base.                          *)
(***************************************************************************)
EXTENDS Integers, Sequences, FiniteSets, TLC

(***************************************************************************)
(* Exact arithmetic: naturals as limb sequences (<<>> is zero, no leading  *)
(* zero limb), integers as sign and magnitude, reals as fractions.         *)
(***************************************************************************)
Base == 10 * 100

\* range(100) in Reflect.tracing
MaxTraceSteps == 100

\* res of main.py: obj_pixels and img_pixels are res x res
res == 512

IntLimit == 4 * res

\* Every arithmetic and geometric operation is one arm of the recursive
\* operator Apply, reached through the operator of its own name below; argv
\* is the tuple of the arguments.
RECURSIVE Apply(_, _)

\* natural numbers: little-endian sequences of limbs in 0 .. Base - 1, no
\* leading zero limb; every operation is flat (no recursion over the limbs)
NLimb(a, k) == Apply("NLimb", <<a, k>>)
NTrim(a) == Apply("NTrim", <<a>>)
\* a machine integer n >= 0
NFromInt(n) == Apply("NFromInt", <<n>>)
\* the machine integer a natural of at most three limbs is
NToInt(a) == Apply("NToInt", <<a>>)
NAdd(a, b) == Apply("NAdd", <<a, b>>)
\* a - b for a >= b
NSub(a, b) == Apply("NSub", <<a, b>>)
\* -1, 0, 1 as a < b, a = b, a > b
NCmp(a, b) == Apply("NCmp", <<a, b>>)
\* the sum of a[i] * b[k + 1 - i] for i in lo .. hi, by halves
NColSum(a, b, k, lo, hi) == Apply("NColSum", <<a, b, k, lo, hi>>)
NShift(a, s) == Apply("NShift", <<a, s>>)
\* the column sums of the schoolbook product stay below 2^31 for factors
\* of up to 2000 limbs; each is split into four limbs and the four
\* numbers these form are added
NMul(a, b) == Apply("NMul", <<a, b>>)
\* integers: [sg |-> -1, 0 or 1, mg |-> natural]
ZMk(s, m) == Apply("ZMk", <<s, m>>)
ZInt(n) == Apply("ZInt", <<n>>)
ZNeg(a) == Apply("ZNeg", <<a>>)
ZAdd(a, b) == Apply("ZAdd", <<a, b>>)
ZSub(a, b) == Apply("ZSub", <<a, b>>)
ZMul(a, b) == Apply("ZMul", <<a, b>>)
\* a * m for a natural m
ZScale(a, m) == Apply("ZScale", <<a, m>>)
\* reals (a + b * sqrt(3)) / d with a and b integers and d a natural > 0.
\* The vertices of the fans of 3, 4, 6 and 12 mirrors, and everything the
\* tracer computes from them and from integer pixels, are of this form, so
\* the arithmetic of the tracer is modelled exactly, as arithmetic of reals.
\* the number of zero limbs a nonzero natural ends in
NZeros(m) == Apply("NZeros", <<m>>)
NDrop(m, z) == Apply("NDrop", <<m, z>>)
\* (a + b * sqrt(3)) / d for d > 0, less the powers of Base common to a, b
\* and d
RMk(a, b, d) == Apply("RMk", <<a, b, d>>)
RInt(i) == Apply("RInt", <<i>>)
\* i / j for machine integers i and j > 0
RFrac(i, j) == Apply("RFrac", <<i, j>>)
RNeg(x) == Apply("RNeg", <<x>>)
RAdd(x, y) == Apply("RAdd", <<x, y>>)
RSub(x, y) == Apply("RSub", <<x, y>>)
RMul(x, y) == Apply("RMul", <<x, y>>)
\* the sign of a + b * sqrt(3): where a and b pull opposite ways, the
\* larger of a^2 and 3 b^2 decides
\* 265 / 153 < sqrt(3) < 362 / 209 settles most cases; the squares the rest
NAboveSqrt3(a, b) == Apply("NAboveSqrt3", <<a, b>>)
RSign(x) == Apply("RSign", <<x>>)
\* 1 / x for x # 0: the conjugate over the norm a^2 - 3 b^2
RInv(x) == Apply("RInv", <<x>>)
RDiv(x, y) == Apply("RDiv", <<x, y>>)
RLt(x, y) == Apply("RLt", <<x, y>>)
RLe(x, y) == Apply("RLe", <<x, y>>)
REq(x, y) == Apply("REq", <<x, y>>)
\* 2-vectors (ti.Vector) of such reals
VInt(i, j) == Apply("VInt", <<i, j>>)
VAdd(p, q) == Apply("VAdd", <<p, q>>)
VSub(p, q) == Apply("VSub", <<p, q>>)
VScale(t, p) == Apply("VScale", <<t, p>>)
VDot(p, q) == Apply("VDot", <<p, q>>)
VCross(p, q) == Apply("VCross", <<p, q>>)
VEq(p, q) == Apply("VEq", <<p, q>>)
\* a reflection whose matrix is [[a, b], [b, a]]
reflection_ab(obj, mirror_p0, mirror_p1) ==
  LET d   == VSub(mirror_p1, mirror_p0)
      dx  == d[1]
      dy  == d[2]
      den == RAdd(RMul(dx, dx), RMul(dy, dy))
      a   == RDiv(RSub(RMul(dx, dx), RMul(dy, dy)), den)
      b   == RDiv(RMul(RInt(2), RMul(dx, dy)), den)
      o   == VSub(obj, mirror_p0)
  IN  VAdd(mirror_p0, <<RAdd(RMul(a, o[1]), RMul(b, o[2])),
                        RAdd(RMul(b, o[1]), RMul(a, o[2]))>>)
\* an intersection that places the crossing at b0 + t_a * (b1 - b0)
intersection_ta(a0, a1, b0, b1) ==
  LET det == VCross(VSub(a0, a1), VSub(b0, b1))
  IN  IF RSign(det) # 0
      THEN LET t_a == RDiv(VCross(VSub(a0, b0), VSub(b0, b1)), det)
               t_b == RDiv(VCross(VSub(a0, b0), VSub(a0, a1)), det)
           IN  IF RSign(t_a) >= 0 /\ RLe(t_a, RInt(1))
                  /\ RSign(t_b) >= 0 /\ RLe(t_b, RInt(1))
               THEN VAdd(b0, VScale(t_a, VSub(b1, b0)))
               ELSE a1
      ELSE a1
\* Reflect.reflection
reflection(obj, mirror_p0, mirror_p1) == Apply("reflection", <<obj, mirror_p0, mirror_p1>>)
\* Reflect.intersection
intersection(a0, a1, b0, b1) == Apply("intersection", <<a0, a1, b0, b1>>)
\* a replacement rule with the comparison turned round
Replaces_gt(hit, src0, closest_hit) ==
  RLt(RFrac(1, 10), VDot(VSub(hit, src0), VSub(hit, closest_hit)))
\* the replacement rule of the closest-hit scan
Replaces(hit, src0, closest_hit) == Apply("Replaces", <<hit, src0, closest_hit>>)
\* (closest_hit - dst).norm() < 1e-3
NoHit(closest_hit, dst0) == Apply("NoHit", <<closest_hit, dst0>>)
\* int(x) of update_img for a real x: the integer part, toward zero; the
\* floor is found by bisection of lo .. hi (lo <= x < hi + 1)
RFloorIn(x, lo, hi) == Apply("RFloorIn", <<x, lo, hi>>)
RTrunc(x) == Apply("RTrunc", <<x>>)

Apply(opn, argv) ==
  CASE opn = "NLimb" ->
      LET a == argv[1] k == argv[2] IN
      (
        IF k >= 1 /\ k <= Len(a) THEN a[k] ELSE 0
      )
    [] opn = "NTrim" ->
      LET a == argv[1] IN
      (
        LET nz == {k \in 1..Len(a) : a[k] # 0}
        IN  IF nz = {} THEN <<>>
            ELSE SubSeq(a, 1, CHOOSE k \in nz : \A j \in nz : j <= k)
      )
    [] opn = "NToInt" ->
      LET a == argv[1] IN
      (
        (IF Len(a) >= 1 THEN a[1] ELSE 0) + (IF Len(a) >= 2 THEN a[2] * Base ELSE 0)
        + (IF Len(a) >= 3 THEN a[3] * Base * Base ELSE 0)
      )
    [] opn = "NFromInt" ->
      LET n == argv[1] IN
      (
        NTrim(<<n % Base, (n \div Base) % Base, (n \div (Base * Base)) % Base,
                n \div (Base * Base * Base)>>)
      )
    [] opn = "NAdd" ->
      LET a == argv[1] b == argv[2] IN
      (
        IF Len(a) <= 2 /\ Len(b) <= 2 THEN NFromInt(NToInt(a) + NToInt(b)) ELSE
        LET n == IF Len(a) >= Len(b) THEN Len(a) ELSE Len(b)
            s == [k \in 1..n |-> (IF k <= Len(a) THEN a[k] ELSE 0)
                                  + (IF k <= Len(b) THEN b[k] ELSE 0)]
            \* the carry into limb k: some lower limb overflows and every limb
            \* between passes the carry on
            c == [k \in 1..(n + 1) |->
                    IF \E j \in 1..(k - 1) :
                          s[j] >= Base /\ \A i \in (j + 1)..(k - 1) : s[i] = Base - 1
                    THEN 1 ELSE 0]
        IN  NTrim([k \in 1..(n + 1) |-> ((IF k <= n THEN s[k] ELSE 0) + c[k]) % Base])
      )
    [] opn = "NSub" ->
      LET a == argv[1] b == argv[2] IN
      (
        IF Len(a) <= 2 THEN NFromInt(NToInt(a) - NToInt(b)) ELSE
        LET n == Len(a)
            s == [k \in 1..n |-> a[k] - (IF k <= Len(b) THEN b[k] ELSE 0)]
            c == [k \in 1..n |->
                    IF \E j \in 1..(k - 1) :
                          s[j] < 0 /\ \A i \in (j + 1)..(k - 1) : s[i] = 0
                    THEN 1 ELSE 0]
        IN  NTrim([k \in 1..n |-> (s[k] - c[k] + Base) % Base])
      )
    [] opn = "NCmp" ->
      LET a == argv[1] b == argv[2] IN
      (
        IF Len(a) < Len(b) THEN -1
        ELSE IF Len(a) > Len(b) THEN 1
        ELSE IF Len(a) <= 2
             THEN (IF NToInt(a) < NToInt(b) THEN -1 ELSE IF NToInt(a) > NToInt(b) THEN 1 ELSE 0)
        ELSE LET df == {k \in 1..Len(a) : a[k] # b[k]}
             IN  IF df = {} THEN 0
                 ELSE LET m == CHOOSE k \in df : \A j \in df : j <= k
                      IN  IF a[m] < b[m] THEN -1 ELSE 1
      )
    [] opn = "NColSum" ->
      LET a == argv[1] b == argv[2] k == argv[3] lo == argv[4] hi == argv[5] IN
      (
        IF lo > hi THEN 0
        ELSE IF lo = hi THEN a[lo] * b[k + 1 - lo]
        ELSE LET mid == (lo + hi) \div 2
             IN  NColSum(a, b, k, lo, mid) + NColSum(a, b, k, mid + 1, hi)
      )
    [] opn = "NShift" ->
      LET a == argv[1] s == argv[2] IN
      (
        IF a = <<>> THEN <<>> ELSE [k \in 1..s |-> 0] \o a
      )
    [] opn = "NMul" ->
      LET a == argv[1] b == argv[2] IN
      (
        IF a = <<>> \/ b = <<>> THEN <<>>
        ELSE IF Len(a) + Len(b) <= 3 THEN NFromInt(NToInt(a) * NToInt(b))
        ELSE LET n   == Len(a) + Len(b)
                 col == [k \in 1..n |->
                           NColSum(a, b, k, IF k + 1 - Len(b) > 1 THEN k + 1 - Len(b) ELSE 1,
                                   IF k < Len(a) THEN k ELSE Len(a))]
                 p0  == NTrim([k \in 1..n |-> col[k] % Base])
                 p1  == NTrim([k \in 1..n |-> (col[k] \div Base) % Base])
                 p2  == NTrim([k \in 1..n |-> (col[k] \div (Base * Base)) % Base])
                 p3  == NTrim([k \in 1..n |-> col[k] \div (Base * Base * Base)])
             IN  NAdd(NAdd(p0, NShift(p1, 1)), NAdd(NShift(p2, 2), NShift(p3, 3)))
      )
    [] opn = "ZMk" ->
      LET s == argv[1] m == argv[2] IN
      (
        IF m = <<>> THEN [sg |-> 0, mg |-> <<>>] ELSE [sg |-> s, mg |-> m]
      )
    [] opn = "ZInt" ->
      LET n == argv[1] IN
      (
        IF n < 0 THEN ZMk(-1, NFromInt(-n)) ELSE ZMk(1, NFromInt(n))
      )
    [] opn = "ZNeg" ->
      LET a == argv[1] IN
      (
        [sg |-> -a.sg, mg |-> a.mg]
      )
    [] opn = "ZAdd" ->
      LET a == argv[1] b == argv[2] IN
      (
        IF a.sg = 0 THEN b
        ELSE IF b.sg = 0 THEN a
        ELSE IF a.sg = b.sg THEN [sg |-> a.sg, mg |-> NAdd(a.mg, b.mg)]
        ELSE LET c == NCmp(a.mg, b.mg)
             IN  IF c = 0 THEN [sg |-> 0, mg |-> <<>>]
                 ELSE IF c > 0 THEN [sg |-> a.sg, mg |-> NSub(a.mg, b.mg)]
                 ELSE [sg |-> b.sg, mg |-> NSub(b.mg, a.mg)]
      )
    [] opn = "ZSub" ->
      LET a == argv[1] b == argv[2] IN
      (
        ZAdd(a, ZNeg(b))
      )
    [] opn = "ZMul" ->
      LET a == argv[1] b == argv[2] IN
      (
        ZMk(a.sg * b.sg, NMul(a.mg, b.mg))
      )
    [] opn = "ZScale" ->
      LET a == argv[1] m == argv[2] IN
      (
        ZMk(a.sg, NMul(a.mg, m))
      )
    [] opn = "NZeros" ->
      LET m == argv[1] IN
      (
        (CHOOSE k \in 1..Len(m) : m[k] # 0 /\ \A j \in 1..(k - 1) : m[j] = 0) - 1
      )
    [] opn = "NDrop" ->
      LET m == argv[1] z == argv[2] IN
      (
        IF m = <<>> THEN m ELSE SubSeq(m, z + 1, Len(m))
      )
    [] opn = "RMk" ->
      LET a == argv[1] b == argv[2] d == argv[3] IN
      (
        IF a.sg = 0 /\ b.sg = 0 THEN [a |-> a, b |-> b, d |-> <<1>>]
        ELSE IF d[1] # 0 \/ (a.sg # 0 /\ a.mg[1] # 0) \/ (b.sg # 0 /\ b.mg[1] # 0)
             THEN [a |-> a, b |-> b, d |-> d]
        ELSE LET zs == {NZeros(d)} \cup (IF a.sg = 0 THEN {} ELSE {NZeros(a.mg)})
                                   \cup (IF b.sg = 0 THEN {} ELSE {NZeros(b.mg)})
                 z  == CHOOSE k \in zs : \A j \in zs : k <= j
             IN  [a |-> [sg |-> a.sg, mg |-> NDrop(a.mg, z)],
                  b |-> [sg |-> b.sg, mg |-> NDrop(b.mg, z)],
                  d |-> NDrop(d, z)]
      )
    [] opn = "RInt" ->
      LET i == argv[1] IN
      (
        [a |-> ZInt(i), b |-> ZInt(0), d |-> <<1>>]
      )
    [] opn = "RFrac" ->
      LET i == argv[1] j == argv[2] IN
      (
        [a |-> ZInt(i), b |-> ZInt(0), d |-> NFromInt(j)]
      )
    [] opn = "RNeg" ->
      LET x == argv[1] IN
      (
        [a |-> ZNeg(x.a), b |-> ZNeg(x.b), d |-> x.d]
      )
    [] opn = "RAdd" ->
      LET x == argv[1] y == argv[2] IN
      (
        IF x.d = y.d THEN RMk(ZAdd(x.a, y.a), ZAdd(x.b, y.b), x.d)
        ELSE RMk(ZAdd(ZScale(x.a, y.d), ZScale(y.a, x.d)),
                 ZAdd(ZScale(x.b, y.d), ZScale(y.b, x.d)), NMul(x.d, y.d))
      )
    [] opn = "RSub" ->
      LET x == argv[1] y == argv[2] IN
      (
        RAdd(x, RNeg(y))
      )
    [] opn = "RMul" ->
      LET x == argv[1] y == argv[2] IN
      (
        IF x.b.sg = 0 /\ y.b.sg = 0
        THEN RMk(ZMul(x.a, y.a), x.b, NMul(x.d, y.d))
        ELSE RMk(ZAdd(ZMul(x.a, y.a), ZMul(ZInt(3), ZMul(x.b, y.b))),
                 ZAdd(ZMul(x.a, y.b), ZMul(x.b, y.a)), NMul(x.d, y.d))
      )
    [] opn = "NAboveSqrt3" ->
      LET a == argv[1] b == argv[2] IN
      (
        IF Len(a) >= Len(b) + 2 THEN TRUE
        ELSE IF Len(a) + 1 <= Len(b) THEN FALSE
        ELSE IF NCmp(NMul(<<209>>, a), NMul(<<362>>, b)) > 0 THEN TRUE
        ELSE IF NCmp(NMul(<<153>>, a), NMul(<<265>>, b)) < 0 THEN FALSE
        ELSE NCmp(NMul(a, a), NMul(<<3>>, NMul(b, b))) > 0
      )
    [] opn = "RSign" ->
      LET x == argv[1] IN
      (
        IF x.b.sg = 0 THEN x.a.sg
        ELSE IF x.a.sg = 0 \/ x.a.sg = x.b.sg THEN x.b.sg
        ELSE IF NAboveSqrt3(x.a.mg, x.b.mg) THEN x.a.sg ELSE x.b.sg
      )
    [] opn = "RInv" ->
      LET x == argv[1] IN
      (
        IF x.b.sg = 0 THEN RMk(ZMk(x.a.sg, x.d), x.b, x.a.mg)
        ELSE LET nrm == ZSub(ZMul(x.a, x.a), ZMul(ZInt(3), ZMul(x.b, x.b)))
             IN  RMk(ZMk(x.a.sg * nrm.sg, NMul(x.a.mg, x.d)),
                     ZMk(-x.b.sg * nrm.sg, NMul(x.b.mg, x.d)), nrm.mg)
      )
    [] opn = "RDiv" ->
      LET x == argv[1] y == argv[2] IN
      (
        RMul(x, RInv(y))
      )
    [] opn = "RLt" ->
      LET x == argv[1] y == argv[2] IN
      (
        RSign(RSub(x, y)) < 0
      )
    [] opn = "RLe" ->
      LET x == argv[1] y == argv[2] IN
      (
        RSign(RSub(x, y)) <= 0
      )
    [] opn = "REq" ->
      LET x == argv[1] y == argv[2] IN
      (
        RSign(RSub(x, y)) = 0
      )
    [] opn = "VInt" ->
      LET i == argv[1] j == argv[2] IN
      (
        <<RInt(i), RInt(j)>>
      )
    [] opn = "VAdd" ->
      LET p == argv[1] q == argv[2] IN
      (
        <<RAdd(p[1], q[1]), RAdd(p[2], q[2])>>
      )
    [] opn = "VSub" ->
      LET p == argv[1] q == argv[2] IN
      (
        <<RSub(p[1], q[1]), RSub(p[2], q[2])>>
      )
    [] opn = "VScale" ->
      LET t == argv[1] p == argv[2] IN
      (
        <<RMul(t, p[1]), RMul(t, p[2])>>
      )
    [] opn = "VDot" ->
      LET p == argv[1] q == argv[2] IN
      (
        RAdd(RMul(p[1], q[1]), RMul(p[2], q[2]))
      )
    [] opn = "VCross" ->
      LET p == argv[1] q == argv[2] IN
      (
        RSub(RMul(p[1], q[2]), RMul(p[2], q[1]))
      )
    [] opn = "VEq" ->
      LET p == argv[1] q == argv[2] IN
      (
        REq(p[1], q[1]) /\ REq(p[2], q[2])
      )
    [] opn = "reflection" ->
      LET obj == argv[1] mirror_p0 == argv[2] mirror_p1 == argv[3] IN
      (
        LET d   == VSub(mirror_p1, mirror_p0)
            dx  == d[1]
            dy  == d[2]
            den == RAdd(RMul(dx, dx), RMul(dy, dy))
            a   == RDiv(RSub(RMul(dx, dx), RMul(dy, dy)), den)
            b   == RDiv(RMul(RInt(2), RMul(dx, dy)), den)
            o   == VSub(obj, mirror_p0)
        IN  VAdd(mirror_p0, <<RAdd(RMul(a, o[1]), RMul(b, o[2])),
                              RSub(RMul(b, o[1]), RMul(a, o[2]))>>)
      )
    [] opn = "intersection" ->
      LET a0 == argv[1] a1 == argv[2] b0 == argv[3] b1 == argv[4] IN
      (
        LET det == VCross(VSub(a0, a1), VSub(b0, b1))
        IN  IF RSign(det) # 0
            THEN LET t_a == RDiv(VCross(VSub(a0, b0), VSub(b0, b1)), det)
                     t_b == RDiv(VCross(VSub(a0, b0), VSub(a0, a1)), det)
                 IN  IF RSign(t_a) >= 0 /\ RLe(t_a, RInt(1))
                        /\ RSign(t_b) >= 0 /\ RLe(t_b, RInt(1))
                     THEN VAdd(b0, VScale(t_b, VSub(b1, b0)))
                     ELSE a1
            ELSE a1
      )
    [] opn = "Replaces" ->
      LET hit == argv[1] src0 == argv[2] closest_hit == argv[3] IN
      (
        RLt(VDot(VSub(hit, src0), VSub(hit, closest_hit)), RFrac(-1, 10))
      )
    [] opn = "NoHit" ->
      LET closest_hit == argv[1] dst0 == argv[2] IN
      (
        LET d == VSub(closest_hit, dst0) IN RLt(VDot(d, d), RFrac(1, 1000000))
      )
    [] opn = "RFloorIn" ->
      LET x == argv[1] lo == argv[2] hi == argv[3] IN
      (
        IF lo >= hi THEN lo
        ELSE LET mid == (lo + hi + 1) \div 2
             IN  IF RLe(RInt(mid), x) THEN RFloorIn(x, mid, hi) ELSE RFloorIn(x, lo, mid - 1)
      )
    [] opn = "RTrunc" ->
      LET x == argv[1] IN
      (
        IF RSign(x) >= 0 THEN RFloorIn(x, 0, IntLimit) ELSE -RFloorIn(RNeg(x), 0, IntLimit)
      )

(***************************************************************************)
(* src/reflect.py: the mirror fan and the tracer.                          *)
(***************************************************************************)
Sqrt3Half == [a |-> ZInt(0), b |-> ZInt(1), d |-> <<2>>]

\* <<cos, sin>> of t = 2 * pi * k / n, the entries of np.linspace(0, 2 * pi,
\* n + 1), for the fans of 3, 4 and 6 mirrors
CosSin(n, k) ==
  LET c12 == \* cos of j * 30 degrees
        [j \in 0..11 |->
           CASE j \in {0}      -> RInt(1)
             [] j \in {1, 11}  -> Sqrt3Half
             [] j \in {2, 10}  -> RFrac(1, 2)
             [] j \in {3, 9}   -> RInt(0)
             [] j \in {4, 8}   -> RFrac(-1, 2)
             [] j \in {5, 7}   -> RNeg(Sqrt3Half)
             [] j \in {6}      -> RInt(-1)]
      j == ((12 \div n) * k) % 12
  IN  <<c12[j], c12[(j + 9) % 12]>>

\* Reflect.__init__: the n_mirrors + 1 vertices of self.mirror_pts, vertex k
\* at index k + 1
Reflect_init(center, n_mirrors, radius) ==
  [k \in 1..(n_mirrors + 1) |->
     VAdd(center, VScale(radius, CosSin(n_mirrors, k - 1)))]


(***************************************************************************)
(* State.  The functions of Reflect are exercised on drawn arguments       *)
(* (SpecReflect); the tracer runs on a drawn fan and pixel (SpecTrace).    *)
(***************************************************************************)
VARIABLES
  \* Reflect.intersection / Reflect.reflection under test
  a0, a1, b0, b1,   \* the arguments, integer points
  ans,              \* the value returned
  rpc,              \* "args", "intersection", "reflection", "reflection2"
  \* Reflect.tracing, called from Reflect.update_img
  fan,              \* [n |-> n_mirrors, c |-> center, r |-> radius]
  mirror_pts,       \* self.mirror_pts
  pixel,            \* <<i, j>> of update_img
  src, dst,         \* the locals of tracing
  t,                \* the iteration of range(100)
  k,                \* the mirror the scan is at
  closest_hit, closest_k,
  tpc,              \* "off", "scan", "ret", "done"
  left,             \* how tracing left its loop: "none", "break", "cap"
  n_reflections,    \* reflections applied so far
  idx               \* the index update_img reads obj_pixels at, once done

VARIABLES
  \* MPM.step and MPM.substep
  timestep,         \* the duration handed to step, in units of TimeUnit
  omega,            \* the angular velocity handed to step and to substep
  todo,             \* the sub-steps range(...) of step has still to run
  pc,               \* "off", "call", "reset", "p2g", "grid", "g2p", "returned"
  log,              \* the phases begun so far, in order
  x,                \* self.x, in units of dx / SubCell
  material,         \* self.material
  F,                \* self.F: its two singular values, in units of 1 / SigUnit
  Jp,               \* self.Jp, a fraction <<numerator, denominator>>
  F_svd,            \* the singular values ti.svd returned in the last P2G
  Jp_in,            \* self.Jp as the last P2G found it
  grid_m,           \* self.grid_m, in units of p_mass / WeightUnit^2
  \* the grid operations of substep at one node
  node,             \* <<i, j>>
  node_m,           \* self.grid_m[i, j]
  grid_v,           \* self.grid_v[i, j]
  v_box,            \* self.grid_v[i, j] as the box limit left it
  gpc               \* "off", "p2g", "free", "box", "done"

rvars == <<a0, a1, b0, b1, ans, rpc>>
tvars == <<fan, mirror_pts, pixel, src, dst, t, k, closest_hit, closest_k, tpc, left,
           n_reflections, idx>>
mvars == <<timestep, todo, pc, log, x, material, F, Jp, F_svd, Jp_in, grid_m>>
gvars == <<node, node_m, grid_v, v_box, gpc>>
vars == <<rvars, tvars, mvars, gvars, omega>>

V(p) == VInt(p[1], p[2])
Origin == <<0, 0>>

ReflectOff ==
  /\ a0 = Origin /\ a1 = Origin /\ b0 = Origin /\ b1 = Origin
  /\ ans = V(Origin) /\ rpc = "off"

TraceOff ==
  /\ fan = [n |-> 0, c |-> Origin, r |-> 0] /\ mirror_pts = <<>>
  /\ pixel = Origin /\ src = V(Origin) /\ dst = V(Origin)
  /\ t = 0 /\ k = 0 /\ closest_hit = V(Origin) /\ closest_k = 0
  /\ tpc = "off" /\ left = "none" /\ n_reflections = 0 /\ idx = Origin

MpmOff ==
  /\ timestep = 0 /\ todo = 0 /\ pc = "off" /\ log = <<>>
  /\ x = <<>> /\ material = <<>> /\ F = <<>> /\ Jp = <<>>
  /\ F_svd = <<>> /\ Jp_in = <<>> /\ grid_m = <<>>

GridOff ==
  /\ node = Origin /\ node_m = 0 /\ grid_v = Origin /\ v_box = Origin
  /\ gpc = "off"

(***************************************************************************)
(* SpecReflect: intersection and reflection on the points of a lattice.    *)
(***************************************************************************)
LatticeMax == 2
Lattice == (0..LatticeMax) \X (0..LatticeMax)

InitReflect ==
  /\ a0 \in Lattice /\ a1 \in Lattice /\ b0 \in Lattice /\ b1 \in Lattice
  /\ ans = V(Origin) /\ rpc = "args"
  /\ TraceOff /\ MpmOff /\ GridOff /\ omega = 0

\* ans = intersection(a0, a1, b0, b1)
CallIntersection ==
  /\ rpc = "args"
  /\ ans' = intersection(V(a0), V(a1), V(b0), V(b1))
  /\ rpc' = "intersection"
  /\ UNCHANGED <<a0, a1, b0, b1, tvars, mvars, gvars, omega>>

\* ans = reflection(a0, b0, b1); the mirror points are distinct (with equal
\* points dx * dx + dy * dy is 0 and the quotients are not numbers)
CallReflection ==
  /\ rpc = "args" /\ b0 # b1
  /\ ans' = reflection(V(a0), V(b0), V(b1))
  /\ rpc' = "reflection"
  /\ UNCHANGED <<a0, a1, b0, b1, tvars, mvars, gvars, omega>>

\* ans = reflection(ans, b0, b1)
CallReflectionAgain ==
  /\ rpc = "reflection"
  /\ ans' = reflection(ans, V(b0), V(b1))
  /\ rpc' = "reflection2"
  /\ UNCHANGED <<a0, a1, b0, b1, tvars, mvars, gvars, omega>>

NextReflect == CallIntersection \/ CallReflection \/ CallReflectionAgain
SpecReflect == InitReflect /\ [][NextReflect]_vars

\* the side of the line from p to q that r lies on: 1 left, -1 right, 0 on it
Orient(p, q, r) == RSign(VCross(VSub(q, p), VSub(r, p)))

\* the directions a1 - a0 and b1 - b0 have cross product zero
Parallel == RSign(VCross(VSub(V(a1), V(a0)), VSub(V(b1), V(b0)))) = 0

\* each segment has its endpoints on both sides of, or on, the other's line:
\* for lines that are not parallel, their crossing lies on both segments,
\* endpoints included
SegmentsMeet ==
  /\ Orient(V(a0), V(a1), V(b0)) * Orient(V(a0), V(a1), V(b1)) <= 0
  /\ Orient(V(b0), V(b1), V(a0)) * Orient(V(b0), V(b1), V(a1)) <= 0

\* C5: intersection(a0, a1, b0, b1) returns the crossing point of the two
\* lines (the point on both of them) exactly when the segments are not
\* parallel and the crossing lies on both segments, endpoints included; in
\* every other case, parallel and collinear segments included, it returns
\* the sentinel a1.
C5_Intersection ==
  rpc = "intersection" =>
    IF ~Parallel /\ SegmentsMeet
    THEN /\ Orient(V(a0), V(a1), ans) = 0
         /\ Orient(V(b0), V(b1), ans) = 0
    ELSE VEq(ans, V(a1))

\* C5 witness: two segments cross away from a1 and the crossing is returned
C5_Crossing ==
  /\ rpc = "intersection" /\ ~Parallel /\ SegmentsMeet
  /\ ~VEq(ans, V(a1)) /\ ~VEq(ans, V(a0)) /\ ~VEq(ans, V(b0)) /\ ~VEq(ans, V(b1))

\* C6: for distinct mirror points, reflecting a point twice across the same
\* mirror line gives the point back, and a point on the mirror line is
\* returned by one reflection unchanged.
C6_Involution ==
  /\ rpc = "reflection2" => VEq(ans, V(a0))
  /\ (rpc = "reflection" /\ Orient(V(b0), V(b1), V(a0)) = 0) => VEq(ans, V(a0))

\* C6 witness: a point off the mirror line has been reflected twice
C6_ReflectedTwice ==
  /\ rpc = "reflection2" /\ Orient(V(b0), V(b1), V(a0)) # 0
  /\ ~VEq(reflection(V(a0), V(b0), V(b1)), V(a0))

(***************************************************************************)
(* SpecTrace: Reflect.update_img on one pixel of one fan.                  *)
(***************************************************************************)

\* the fan of three mirrors of radius 100 about (0, 0), and main.py's
\* center res / 2 and radius 0.15 * res[0] = 384 / 5 with four mirrors
TriFan == [n |-> 3, c |-> <<0, 0>>, r |-> <<100, 1>>]
SquareFan == [n |-> 4, c |-> <<res \div 2, res \div 2>>, r |-> <<3 * res, 20>>]
FanSet == {TriFan, SquareFan}

\* the sign of u + v * sqrt(3) for machine integers u and v
SignSqrt3(u, v) ==
  LET su == IF u > 0 THEN 1 ELSE IF u < 0 THEN -1 ELSE 0
      sv == IF v > 0 THEN 1 ELSE IF v < 0 THEN -1 ELSE 0
  IN  IF sv = 0 THEN su
      ELSE IF su = 0 \/ su = sv THEN sv
      ELSE IF u * u > 3 * v * v THEN su ELSE sv

\* the pixels drawn for TriFan: those of a few rows that lie beyond the
\* line x + sqrt(3) y = 100 of mirror 0 by at most JustBand, within the
\* sector of mirror 0 and of abscissa at most MaxPixelX, and two pixels
\* inside the triangle
JustBand == 2
MaxPixelX == 101
TriRows == {1, 2, 41}
TriPixels ==
  {p \in (0..MaxPixelX) \X TriRows :
     /\ SignSqrt3(p[1] - 100, p[2]) > 0
     /\ SignSqrt3(p[1] - 100 - 2 * JustBand, p[2]) <= 0
     /\ SignSqrt3(p[2], p[1]) > 0}
  \cup {<<0, 0>>, <<10, 10>>}

\* the pixels drawn for SquareFan: on the ray through vertex 0, inside the
\* square, and beyond mirror 0
SquarePixels ==
  LET c == res \div 2
  IN  {<<c + 77, c>>, <<c + 78, c>>, <<c, c>>, <<c + 40, c + 10>>,
       <<c + 50, c + 40>>, <<c + 60, c + 60>>}

Pixels(fn) == IF fn = TriFan THEN TriPixels ELSE SquarePixels

\* update_img reaches a pixel and calls tracing: src = self.center,
\* dst = the pixel, and the first iteration starts its scan
InitTrace ==
  /\ fan \in FanSet
  /\ mirror_pts = Reflect_init(V(fan.c), fan.n, RFrac(fan.r[1], fan.r[2]))
  /\ pixel \in Pixels(fan)
  /\ src = V(fan.c) /\ dst = V(pixel)
  /\ t = 0 /\ k = 0 /\ closest_hit = V(pixel) /\ closest_k = 0
  /\ tpc = "scan" /\ left = "none" /\ n_reflections = 0 /\ idx = Origin
  /\ ReflectOff /\ MpmOff /\ GridOff /\ omega = 0

\* a scan that takes the nearer hit and leaves closest_k as it was
ScanStep_k0(hit, kk, src0, best, best_k) ==
  IF Replaces(hit, src0, best) THEN <<hit, best_k>> ELSE <<best, best_k>>

\* closest_hit and closest_k after the hit of mirror kk is looked at
ScanStep(hit, kk, src0, best, best_k) ==
  IF Replaces(hit, src0, best) THEN <<hit, kk>> ELSE <<best, best_k>>

\* one turn of the loop over the mirrors
ScanMirror ==
  /\ tpc = "scan" /\ k < fan.n
  /\ LET hit  == intersection(src, dst, mirror_pts[k + 1], mirror_pts[k + 2])
         best == ScanStep(hit, k, src, closest_hit, closest_k)
     IN  closest_hit' = best[1] /\ closest_k' = best[2]
  /\ k' = k + 1
  /\ UNCHANGED <<fan, mirror_pts, pixel, src, dst, t, tpc, left, n_reflections, idx, rvars, mvars, gvars, omega>>

\* the scan is over and the closest hit is within 1e-3 of dst: break
Break ==
  /\ tpc = "scan" /\ k = fan.n
  /\ NoHit(closest_hit, dst)
  /\ tpc' = "ret" /\ left' = "break"
  /\ UNCHANGED <<fan, mirror_pts, pixel, src, dst, t, k, closest_hit, closest_k,
                 n_reflections, idx, rvars, mvars, gvars, omega>>

\* otherwise src moves to the hit, dst is reflected across the mirror hit,
\* and the next iteration starts, unless this was the last of range(100)
Reflect ==
  /\ tpc = "scan" /\ k = fan.n
  /\ ~NoHit(closest_hit, dst)
  /\ src' = closest_hit
  /\ dst' = reflection(dst, mirror_pts[closest_k + 1], mirror_pts[closest_k + 2])
  /\ n_reflections' = n_reflections + 1
  /\ t' = t + 1
  /\ IF t + 1 >= MaxTraceSteps
     THEN tpc' = "ret" /\ left' = "cap" /\ UNCHANGED <<k, closest_hit, closest_k>>
     ELSE k' = 0 /\ closest_hit' = dst' /\ closest_k' = 0 /\ UNCHANGED <<tpc, left>>
  /\ UNCHANGED <<fan, mirror_pts, pixel, idx, rvars, mvars, gvars, omega>>

\* tracing returns dst; update_img reads obj_pixels[int(i_obj), int(j_obj)]
UpdateImg ==
  /\ tpc = "ret"
  /\ idx' = <<RTrunc(dst[1]), RTrunc(dst[2])>>
  /\ tpc' = "done"
  /\ UNCHANGED <<fan, mirror_pts, pixel, src, dst, t, k, closest_hit, closest_k, left,
                 n_reflections, rvars, mvars, gvars, omega>>

NextTrace == ScanMirror \/ Break \/ Reflect \/ UpdateImg
SpecTrace == InitTrace /\ [][NextTrace]_vars

\* p lies inside or on the closed polygon of the mirrors (its vertices run
\* anticlockwise)
InPolygon(p) ==
  \A j \in 1..fan.n : Orient(mirror_pts[j], mirror_pts[j + 1], p) >= 0

\* the pixel lies beyond the line of mirror 0, at most JustBand away from it
JustOutside0 ==
  LET e  == VSub(mirror_pts[2], mirror_pts[1])
      cr == VCross(e, VSub(V(pixel), mirror_pts[1]))
  IN  /\ RSign(cr) < 0
      /\ RLe(RMul(cr, cr), RMul(RInt(JustBand * JustBand), VDot(e, e)))

\* the pixel lies strictly between the rays from the center through the two
\* ends of mirror 0
InSector0 ==
  /\ Orient(V(fan.c), mirror_pts[1], V(pixel)) > 0
  /\ Orient(V(fan.c), V(pixel), mirror_pts[2]) > 0

\* the single-mirror reflection formula applied to the pixel across mirror 0
Mirror0Image == reflection(V(pixel), mirror_pts[1], mirror_pts[2])

\* C4 (as stated): in the fan of 3 mirrors of radius 100 about (0, 0), every
\* pixel just outside the line of mirror 0 and inside its sector takes
\* exactly one reflection and tracing returns its image across mirror 0.
C4_OneReflection_AsStated ==
  (tpc = "done" /\ fan = TriFan /\ JustOutside0 /\ InSector0) =>
    (n_reflections = 1 /\ VEq(dst, Mirror0Image))

\* C4 (amended): in the fan of 3 mirrors of radius 100 about (0, 0), every
\* pixel just outside the line of mirror 0 and inside its sector whose image
\* across mirror 0 lies inside or on the triangle takes exactly one
\* reflection, tracing leaves by its break in the second iteration, and it
\* returns the image of the pixel across mirror 0.
C4_OneReflection ==
  (tpc = "done" /\ fan = TriFan /\ JustOutside0 /\ InSector0
     /\ InPolygon(Mirror0Image)) =>
    (n_reflections = 1 /\ t = 1 /\ left = "break" /\ VEq(dst, Mirror0Image))

\* C4 witness: such a pixel has been traced, and it was moved
C4_TracedOnce ==
  /\ tpc = "done" /\ fan = TriFan /\ JustOutside0 /\ InSector0
  /\ InPolygon(Mirror0Image) /\ n_reflections = 1 /\ ~VEq(dst, V(pixel))

\* mirror j (from mirror_pts[j + 1] to mirror_pts[j + 2]) has a valid
\* intersection with the segment from src to dst: the two are not parallel
\* and each has its ends on both sides of, or on, the line of the other
Crosses(j) ==
  LET p == mirror_pts[j + 1]
      q == mirror_pts[j + 2]
  IN  /\ RSign(VCross(VSub(dst, src), VSub(q, p))) # 0
      /\ Orient(src, dst, p) * Orient(src, dst, q) <= 0
      /\ Orient(p, q, src) * Orient(p, q, dst) <= 0

\* the scan of an iteration is over and a reflection follows
ScanDone == tpc = "scan" /\ k = fan.n /\ ~NoHit(closest_hit, dst)

\* C7: when the scan of an iteration ends in a reflection, the mirror
\* closest_k really intersects the segment from src to dst, closest_hit is
\* that intersection, and no other mirror has a valid intersection strictly
\* between src and closest_hit.
C7_ClosestHit ==
  ScanDone =>
    /\ Crosses(closest_k)
    /\ Orient(mirror_pts[closest_k + 1], mirror_pts[closest_k + 2], closest_hit) = 0
    /\ Orient(src, dst, closest_hit) = 0
    /\ \A j \in 0..(fan.n - 1) :
         (j # closest_k /\ Crosses(j)) =>
           Orient(mirror_pts[j + 1], mirror_pts[j + 2], src)
             * Orient(mirror_pts[j + 1], mirror_pts[j + 2], closest_hit) >= 0

\* C7 witness: a scan ends in a reflection across a mirror other than
\* mirror 0 while a second mirror has a valid intersection as well
C7_TwoMirrorsHit ==
  /\ ScanDone /\ closest_k # 0
  /\ \E j \in 0..(fan.n - 1) : j # closest_k /\ Crosses(j)

\* C10: tracing leaves through its break before the cap, the point it
\* returns lies inside or on the mirror polygon, update_img reads obj_pixels
\* at an index inside the res x res buffer, and a pixel inside the polygon
\* is returned unchanged with no reflection.
C10_TraceSafe ==
  tpc = "done" =>
    /\ left = "break" /\ t < MaxTraceSteps
    /\ InPolygon(dst)
    /\ idx \in (0..(res - 1)) \X (0..(res - 1))
    /\ InPolygon(V(pixel)) => (n_reflections = 0 /\ VEq(dst, V(pixel)))

(***************************************************************************)
(* src/mpm.py: the solver.  Spec runs MPM.step: the sub-steps and their    *)
(* four phases, the particles' x, material, F and Jp, and the node masses. *)
(* The velocities v, C and grid_v are not carried there: what they do to F *)
(* (line 88) and to x (line 160) is a choice among a few values.  The grid *)
(* operations on grid_v are run node by node in SpecGrid.                  *)
(***************************************************************************)
MATERIAL_LIQUID == 0
MATERIAL_JELLY == 1
MATERIAL_SNOW == 2

\* the model's sizes: 2 particles for 20000 * quality^2, a grid of 8 x 8
\* nodes for 128 * quality, positions on the multiples of dx / SubCell,
\* durations on the multiples of dt / TicksPerDt up to MaxSubsteps sub-steps
particle_count == 2
grid_res == 8
SubCell == 2
TicksPerDt == 2
MaxSubsteps == 2

dt == TicksPerDt
Particles == 1..particle_count
Nodes == (0..(grid_res - 1)) \X (0..(grid_res - 1))

\* int(timestep // self.dt): the floor of the quotient
n_substeps_up(ts) == (ts + dt - 1) \div dt
n_substeps(ts) == ts \div dt

\* .cast(int) of n / d for d > 0: toward zero
Trunc(n, d) == IF n >= 0 THEN n \div d ELSE -((-n) \div d)

\* base = (x * inv_dx - 0.5).cast(int) along one axis, for the coordinate
\* cx in units of dx / SubCell
Base_of(cx) == Trunc(2 * cx - SubCell, 2 * SubCell)

\* fx = x * inv_dx - base, in units of 1 / SubCell
Fx_of(cx) == cx - SubCell * Base_of(cx)

\* the quadratic kernel w of fx = u / SubCell, in units of 1 / WeightUnit
WeightUnit == 8 * SubCell * SubCell
w_half(u) ==
  <<(3 * SubCell - 2 * u) * (3 * SubCell - 2 * u),
    4 * SubCell * SubCell - 8 * (u - SubCell) * (u - SubCell),
    (2 * u - SubCell) * (2 * u - SubCell)>>
w(u) ==
  <<(3 * SubCell - 2 * u) * (3 * SubCell - 2 * u),
    6 * SubCell * SubCell - 8 * (u - SubCell) * (u - SubCell),
    (2 * u - SubCell) * (2 * u - SubCell)>>

\* masses are in units of p_mass / WeightUnit^2
p_mass == WeightUnit * WeightUnit

\* weight * self.p_mass of the particle at pos for the node nd: w[i][0] *
\* w[j][1] at nd = base + (i, j), nothing at the other nodes
Scatter(pos, nd) ==
  LET i == nd[1] - Base_of(pos[1])
      j == nd[2] - Base_of(pos[2])
  IN  IF i \in 0..2 /\ j \in 0..2
      THEN w(Fx_of(pos[1]))[i + 1] * w(Fx_of(pos[2]))[j + 1]
      ELSE 0

\* the sum of f[i] for i in lo .. hi, by halves
RECURSIVE SumOver(_, _, _)
SumOver(f, lo, hi) ==
  IF lo > hi THEN 0
  ELSE IF lo = hi THEN f[lo]
  ELSE LET mid == (lo + hi) \div 2
       IN  SumOver(f, lo, mid) + SumOver(f, mid + 1, hi)

\* the 3 x 3 nodes about a coordinate lie inside the grid
InGrid(cx) == Base_of(cx) >= 0 /\ Base_of(cx) + 2 <= grid_res - 1

\* singular values are in units of 1 / SigUnit; line 100 bounds them by
\* 1 - 2.5e2 and 1 + 4.5e-3
SigUnit == 2 * 1000
sig_min == SigUnit - 250 * SigUnit
sig_max == SigUnit + (45 * SigUnit) \div 10000
Min(m, n) == IF m <= n THEN m ELSE n
Max(m, n) == IF m >= n THEN m ELSE n

\* new_sig of lines 98-100
new_sig(mat, sg) ==
  IF mat = MATERIAL_SNOW THEN Min(Max(sg, sig_min), sig_max) ELSE sg

RECURSIVE GCD(_, _)
GCD(m, n) == IF n = 0 THEN m ELSE GCD(n, m % n)

\* the fraction fr times num / den, in lowest terms
FracMul(fr, num, den) ==
  LET g1 == GCD(num, den)
      n1 == fr[1] * (num \div g1)
      d1 == fr[2] * (den \div g1)
      g2 == GCD(n1, d1)
  IN  <<n1 \div g2, d1 \div g2>>

\* what line 88 may make of F: the singular values ti.svd then finds
Strains == <<<<SigUnit, SigUnit>>,
             <<SigUnit \div 2, 2 * sig_max>>,
             <<SigUnit - SigUnit \div 40, sig_max>>>>

\* the positions drawn: by the low edge, in the middle and by the high edge
MaxCoord == CHOOSE cx \in 0..(SubCell * grid_res) :
              InGrid(cx) /\ \A cy \in 0..(SubCell * grid_res) : InGrid(cy) => cy <= cx
PosSample == <<<<0, 0>>, <<SubCell + 1, SubCell + 1>>,
              <<2 * SubCell + 1, MaxCoord>>, <<MaxCoord - 1, SubCell>>>>
\* the particles take successive positions of PosSample, from any of them on
Placements ==
  {[p \in Particles |-> PosSample[((p + s - 1) % Len(PosSample)) + 1]] :
     s \in 0..(Len(PosSample) - 1)}

Durations == (-TicksPerDt)..(MaxSubsteps * TicksPerDt + 1)
MaxOmega == 2

\* The constructor has run (F = identity, Jp = 1) and step is called.  The
\* constructor writes MATERIAL_JELLY to every particle; material is a public
\* field the kernel branches on, and all its three values are drawn.
Init ==
  /\ timestep \in Durations
  /\ omega \in {-MaxOmega, MaxOmega}
  /\ todo = 0 /\ pc = "call" /\ log = <<>>
  /\ x \in Placements
  /\ material \in [Particles -> {MATERIAL_LIQUID, MATERIAL_JELLY, MATERIAL_SNOW}]
  /\ F = [p \in Particles |-> <<"diag", SigUnit, SigUnit>>]
  /\ Jp = [p \in Particles |-> <<1, 1>>]
  /\ F_svd = [p \in Particles |-> <<SigUnit, SigUnit>>]
  /\ Jp_in = Jp
  /\ grid_m = [nd \in Nodes |-> 0]
  /\ ReflectOff /\ TraceOff /\ GridOff

\* step: range(int(timestep // self.dt)) is evaluated
Step ==
  /\ pc = "call"
  /\ todo' = n_substeps(timestep)
  /\ pc' = IF todo' > 0 THEN "reset" ELSE "returned"
  /\ UNCHANGED <<timestep, log, x, material, F, Jp, F_svd, Jp_in, grid_m,
                 omega, rvars, tvars, gvars>>

\* substep, lines 79-81
ResetGrid ==
  /\ pc = "reset"
  /\ grid_m' = [nd \in Nodes |-> 0]
  /\ log' = Append(log, "reset")
  /\ pc' = "p2g"
  /\ UNCHANGED <<timestep, todo, x, material, F, Jp, F_svd, Jp_in,
                 omega, rvars, tvars, gvars>>

\* substep, lines 84-119: particle e + p - 1 (mod the number of strains)
\* of Strains is what ti.svd finds for particle p
P2G ==
  /\ pc = "p2g"
  /\ \E e \in 1..Len(Strains) :
       LET sig == [p \in Particles |-> Strains[((e + p - 2) % Len(Strains)) + 1]]
           ns  == [p \in Particles |->
                     <<new_sig(material[p], sig[p][1]), new_sig(material[p], sig[p][2])>>]
       IN  /\ F_svd' = sig
           /\ Jp_in' = Jp
           /\ Jp' = [p \in Particles |->
                       FracMul(FracMul(Jp[p], sig[p][1], ns[p][1]), sig[p][2], ns[p][2])]
           /\ F' = [p \in Particles |->
                      IF material[p] = MATERIAL_LIQUID
                      THEN <<"sqrt", ns[p][1] * ns[p][2], SigUnit * SigUnit>>
                      ELSE <<"diag", ns[p][1], ns[p][2]>>]
  /\ grid_m' = [nd \in Nodes |->
                  grid_m[nd] + SumOver([p \in Particles |-> Scatter(x[p], nd)],
                                       1, particle_count)]
  /\ log' = Append(log, "p2g")
  /\ pc' = "grid"
  /\ UNCHANGED <<timestep, todo, x, material, omega, rvars, tvars, gvars>>

\* substep, lines 122-144: grid_v alone is written
GridOps ==
  /\ pc = "grid"
  /\ log' = Append(log, "grid")
  /\ pc' = "g2p"
  /\ UNCHANGED <<timestep, todo, x, material, F, Jp, F_svd, Jp_in, grid_m,
                 omega, rvars, tvars, gvars>>

\* substep, lines 147-160, and the loop of step: the advection moves every
\* particle by the same step of the lattice, or leaves it, and stays where
\* the 3 x 3 nodes about each particle lie inside the grid
G2P ==
  /\ pc = "g2p"
  /\ \E mv \in {0, 1} :
       /\ x' = [p \in Particles |-> <<x[p][1] + mv, x[p][2] + mv>>]
       /\ \A p \in Particles : InGrid(x'[p][1]) /\ InGrid(x'[p][2])
  /\ log' = Append(log, "g2p")
  /\ todo' = todo - 1
  /\ pc' = IF todo' > 0 THEN "reset" ELSE "returned"
  /\ UNCHANGED <<timestep, material, F, Jp, F_svd, Jp_in, grid_m,
                 omega, rvars, tvars, gvars>>

Next == Step \/ ResetGrid \/ P2G \/ GridOps \/ G2P
Spec == Init /\ [][Next]_vars

PhaseOrder == <<"reset", "p2g", "grid", "g2p">>

\* the phases begun so far are the four phases in their order, over and
\* over, and the phase to begin next is the one after the last
InPhaseOrder ==
  /\ \A i \in 1..Len(log) : log[i] = PhaseOrder[((i - 1) % 4) + 1]
  /\ pc \in {"reset", "p2g", "grid", "g2p"} => pc = PhaseOrder[(Len(log) % 4) + 1]
  /\ pc = "returned" => Len(log) % 4 = 0

\* C1 (as stated): step runs exactly floor(timestep / dt) sub-steps, each
\* its four phases in the order reset, P2G, grid update, G2P, none skipped
\* or repeated and none begun before the one before it is over.
C1_Substeps_AsStated ==
  /\ InPhaseOrder
  /\ pc = "returned" =>
       \E n \in (-MaxSubsteps - 1)..(MaxSubsteps + 1) :
         /\ n * dt <= timestep /\ timestep < (n + 1) * dt
         /\ Len(log) = 4 * n

\* C1 (amended): step runs exactly floor(timestep / dt) sub-steps when that
\* number is positive and none otherwise (a negative duration included),
\* each its four phases in the order reset, P2G, grid update, G2P, none
\* skipped or repeated and none begun before the one before it is over.
C1_Substeps ==
  /\ InPhaseOrder
  /\ pc = "returned" =>
       \E n \in (-MaxSubsteps - 1)..(MaxSubsteps + 1) :
         /\ n * dt <= timestep /\ timestep < (n + 1) * dt
         /\ Len(log) = 4 * Max(0, n)

\* C1 witness: a duration that is no multiple of dt has been run, as two
\* sub-steps
C1_TwoSubsteps ==
  /\ pc = "returned" /\ timestep % dt # 0
  /\ log = PhaseOrder \o PhaseOrder

\* C2: once P2G is over and before the grid update starts, the sum of
\* grid_m over all nodes is particle_count * p_mass, whatever the
\* materials, F and Jp of the particles.
C2_MassConserved ==
  pc = "grid" =>
    SumOver([n \in 1..(grid_res * grid_res) |->
               grid_m[<<(n - 1) \div grid_res, (n - 1) % grid_res>>]],
            1, grid_res * grid_res) = particle_count * p_mass

\* C2 witness: P2G of a second sub-step is over, with two particles of
\* different materials that scattered mass to a common node, one of them
\* from a position below half a cell
C2_Scattered ==
  /\ pc = "grid" /\ Len(log) > 4
  /\ material[1] # material[2] /\ x[1] # x[2]
  /\ \E p \in Particles : 2 * x[p][1] < SubCell
  /\ \E nd \in Nodes : Scatter(x[1], nd) > 0 /\ Scatter(x[2], nd) > 0

\* the interval [1 - 2.5e-2, 1 + 4.5e-3] of the singular values of snow
Clamped(sg) == Min(Max(sg, SigUnit - (25 * SigUnit) \div 1000), SigUnit + (45 * SigUnit) \div 10000)

\* C3: after P2G, every snow particle has F rebuilt from its singular
\* values clamped to [0.975, 1.0045], a value below 0.975 raised to 0.975
\* and one above 1.0045 lowered to 1.0045, and its Jp multiplied by the
\* ratio old / clamped of each singular value.
C3_SnowClamped ==
  pc = "grid" =>
    \A p \in Particles :
      material[p] = MATERIAL_SNOW =>
        /\ F[p] = <<"diag", Clamped(F_svd[p][1]), Clamped(F_svd[p][2])>>
        /\ Jp[p][1] * Jp_in[p][2] * Clamped(F_svd[p][1]) * Clamped(F_svd[p][2])
             = Jp[p][2] * Jp_in[p][1] * F_svd[p][1] * F_svd[p][2]

(***************************************************************************)
(* SpecGrid: the grid operations of substep (lines 122-144) at one node.   *)
(* Velocities are in units of dt * 9.8, the speed gravity adds in one      *)
(* sub-step.  At the node <<i, j>>, dpos is D / (2 * grid_res) for the     *)
(* integer vector D, and dpos.norm() is sqrt(N) / (2 * grid_res) for       *)
(* N = D . D; a number of the grid is [p, q, d], the real                  *)
(* (p + q * sqrt(N)) / d with d > 0, in lowest terms.                      *)
(***************************************************************************)
Abs(n) == IF n >= 0 THEN n ELSE -n
Sgn(n) == IF n > 0 THEN 1 ELSE IF n < 0 THEN -1 ELSE 0

SMk(p, q, d) ==
  LET g == GCD(GCD(Abs(p), Abs(q)), d)
  IN  [p |-> Sgn(p) * (Abs(p) \div g), q |-> Sgn(q) * (Abs(q) \div g), d |-> d \div g]
SInt(n) == [p |-> n, q |-> 0, d |-> 1]
SAdd(a, b) == SMk(a.p * b.d + b.p * a.d, a.q * b.d + b.q * a.d, a.d * b.d)
SSub(a, b) == SMk(a.p * b.d - b.p * a.d, a.q * b.d - b.q * a.d, a.d * b.d)
SScale(n, a) == SMk(n * a.p, n * a.q, a.d)
\* a * num / den for num, den > 0
SFrac(a, num, den) == SMk(num * a.p, num * a.q, den * a.d)
\* a / sqrt(N) for N > 0
SDivSqrt(N, a) == SMk(a.q * N, a.p, a.d * N)
\* the sign of p + q * sqrt(N)
SSign(N, a) ==
  IF a.q = 0 \/ N = 0 THEN Sgn(a.p)
  ELSE IF a.p = 0 \/ Sgn(a.p) = Sgn(a.q) THEN Sgn(a.q)
  ELSE IF a.p * a.p > a.q * a.q * N THEN Sgn(a.p)
  ELSE IF a.p * a.p < a.q * a.q * N THEN Sgn(a.q)
  ELSE 0
SLe(N, a, b) == SSign(N, SSub(b, a)) >= 0
SEq(N, a, b) == SSign(N, SSub(b, a)) = 0
SMin(N, a, b) == IF SLe(N, a, b) THEN a ELSE b
SMax(N, a, b) == IF SLe(N, a, b) THEN b ELSE a

\* self.mu_boundary = 0.8
mu_boundary == <<4, 5>>

\* dpos of line 136, times 2 * grid_res
Dpos(nd) == <<2 * nd[1] - grid_res, 2 * nd[2] - grid_res>>
Norm2(nd) == Dpos(nd)[1] * Dpos(nd)[1] + Dpos(nd)[2] * Dpos(nd)[2]
\* dpos.dot(vel) and dpos.cross(vel), times 2 * grid_res
DposDot(nd, vel) == SAdd(SScale(Dpos(nd)[1], vel[1]), SScale(Dpos(nd)[2], vel[2]))
DposCross(nd, vel) == SSub(SScale(Dpos(nd)[1], vel[2]), SScale(Dpos(nd)[2], vel[1]))

\* lines 124-125: the momentum over the mass, and gravity
FreeVelocity(mass, mom) ==
  <<SFrac(mom[1], 1, mass), SAdd(SFrac(mom[2], 1, mass), SInt(-1))>>

\* lines 127-134: limit inside box
BoxLimit(nd, vel) ==
  LET N  == Norm2(nd)
      v1 == IF nd[1] < 3 /\ SSign(N, vel[1]) < 0 THEN SInt(0) ELSE vel[1]
      v2 == IF nd[1] > grid_res - 3 /\ SSign(N, v1) > 0 THEN SInt(0) ELSE v1
      v3 == IF nd[2] < 3 /\ SSign(N, vel[2]) < 0 THEN SInt(0) ELSE vel[2]
      v4 == IF nd[2] > grid_res - 3 /\ SSign(N, v3) > 0 THEN SInt(0) ELSE v3
  IN  <<v2, v4>>

\* a rim response with ti.min and ti.max changed about
RimLimit_maxmin(nd, vel, om) ==
  LET N == Norm2(nd)
  IN  IF N >= grid_res * grid_res /\ SSign(N, DposDot(nd, vel)) > 0
      THEN LET v_radial     == SDivSqrt(N, DposDot(nd, vel))
               v_tangential == SDivSqrt(N, DposCross(nd, vel))
               friction     == SFrac(v_radial, mu_boundary[1], mu_boundary[2])
               new_t == IF SSign(N, SSub(SInt(om), v_tangential)) > 0
                        THEN SMax(N, SInt(om), SAdd(v_tangential, friction))
                        ELSE SMin(N, SInt(om), SSub(v_tangential, friction))
               per_norm == SDivSqrt(N, new_t)
           IN  <<SScale(-Dpos(nd)[2], per_norm), SScale(Dpos(nd)[1], per_norm)>>
      ELSE vel

\* lines 136-144: limit inside circle
RimLimit(nd, vel, om) ==
  LET N == Norm2(nd)
  IN  IF N >= grid_res * grid_res /\ SSign(N, DposDot(nd, vel)) > 0
      THEN LET v_radial     == SDivSqrt(N, DposDot(nd, vel))
               v_tangential == SDivSqrt(N, DposCross(nd, vel))
               friction     == SFrac(v_radial, mu_boundary[1], mu_boundary[2])
               new_t == IF SSign(N, SSub(SInt(om), v_tangential)) > 0
                        THEN SMin(N, SInt(om), SAdd(v_tangential, friction))
                        ELSE SMax(N, SInt(om), SSub(v_tangential, friction))
               per_norm == SDivSqrt(N, new_t)
           IN  <<SScale(-Dpos(nd)[2], per_norm), SScale(Dpos(nd)[1], per_norm)>>
      ELSE vel

MaxNodeMass == 2
MaxVel == 2
SZero == <<SInt(0), SInt(0)>>

\* P2G is over: the node holds a mass and, if the mass is not 0, the
\* momentum of that mass at some velocity
InitGrid ==
  /\ node \in Nodes
  /\ omega \in (-MaxOmega)..MaxOmega
  /\ node_m \in 0..MaxNodeMass
  /\ \E v0 \in ((-MaxVel)..MaxVel) \X ((-MaxVel)..MaxVel) :
       grid_v = <<SInt(node_m * v0[1]), SInt(node_m * v0[2])>>
  /\ v_box = SZero
  /\ gpc = "p2g"
  /\ ReflectOff /\ TraceOff /\ MpmOff

\* line 123: a node without mass is passed over
SkipNode ==
  /\ gpc = "p2g" /\ node_m = 0
  /\ gpc' = "done"
  /\ v_box' = grid_v
  /\ UNCHANGED <<node, node_m, grid_v, omega, rvars, tvars, mvars>>

Normalise ==
  /\ gpc = "p2g" /\ node_m > 0
  /\ grid_v' = FreeVelocity(node_m, grid_v)
  /\ gpc' = "free"
  /\ UNCHANGED <<node, node_m, v_box, omega, rvars, tvars, mvars>>

LimitBox ==
  /\ gpc = "free"
  /\ grid_v' = BoxLimit(node, grid_v)
  /\ v_box' = grid_v'
  /\ gpc' = "box"
  /\ UNCHANGED <<node, node_m, omega, rvars, tvars, mvars>>

LimitCircle ==
  /\ gpc = "box"
  /\ grid_v' = RimLimit(node, grid_v, omega)
  /\ gpc' = "done"
  /\ UNCHANGED <<node, node_m, v_box, omega, rvars, tvars, mvars>>

NextGrid == SkipNode \/ Normalise \/ LimitBox \/ LimitCircle
SpecGrid == InitGrid /\ [][NextGrid]_vars

\* C8: at the end of the grid operations, a node with mass within three
\* cells of an edge of the grid (index < 3, index >= grid_res - 3, on
\* either axis) has no velocity component out of the domain across that
\* edge, the limit inside the circle applied.
C8_NoOutflow ==
  (gpc = "done" /\ node_m > 0) =>
    /\ node[1] < 3 => SSign(Norm2(node), grid_v[1]) >= 0
    /\ node[1] >= grid_res - 3 => SSign(Norm2(node), grid_v[1]) <= 0
    /\ node[2] < 3 => SSign(Norm2(node), grid_v[2]) >= 0
    /\ node[2] >= grid_res - 3 => SSign(Norm2(node), grid_v[2]) <= 0

\* the node is on or outside the circle of radius 0.5 and the velocity the
\* box limit left has a positive radial component
RimActs ==
  /\ Norm2(node) >= grid_res * grid_res
  /\ SSign(Norm2(node), DposDot(node, v_box)) > 0

\* C9: for a node with mass on or outside the radius 0.5 whose velocity
\* has a positive radial component v_r, the velocity after the rim response
\* has radial component 0 and a tangential component between the one
\* before and omega (ends included), at most 0.8 * v_r away from the one
\* before; any other node with mass, and every node without mass, keeps
\* its velocity.  (All quantities are taken times 2 * grid_res * norm.)
C9_RimResponse ==
  gpc = "done" =>
    LET N    == Norm2(node)
        t0   == DposCross(node, v_box)
        t1   == DposCross(node, grid_v)
        om   == [p |-> 0, q |-> omega, d |-> 1]
        most == SFrac(DposDot(node, v_box), mu_boundary[1], mu_boundary[2])
    IN  IF node_m > 0 /\ RimActs
        THEN /\ SSign(N, DposDot(node, grid_v)) = 0
             /\ \/ SLe(N, t0, t1) /\ SLe(N, t1, om)
                \/ SLe(N, om, t1) /\ SLe(N, t1, t0)
             /\ SLe(N, SSub(t1, t0), most) /\ SLe(N, SSub(t0, t1), most)
        ELSE /\ SEq(N, grid_v[1], v_box[1]) /\ SEq(N, grid_v[2], v_box[2])
             /\ node_m = 0 => grid_v = SZero

\* C9 witness: the rim response has acted on a node with mass and stopped
\* the tangential component at omega, short of the friction's reach
C9_RimActed ==
  /\ gpc = "done" /\ node_m > 0 /\ RimActs
  /\ SEq(Norm2(node), DposCross(node, grid_v), [p |-> 0, q |-> omega, d |-> 1])
  /\ ~SEq(Norm2(node), DposCross(node, grid_v), DposCross(node, v_box))

====
